---- MODULE Spec2Model ----
(***************************************************************************)
(* A model of terminal-emulator/src/main/jni/termux.c: the JNI entry       *)
(* points createSubprocess, setPtyWindowSize, setPtyUTF8Mode, waitFor and  *)
(* close, the parent and child paths of create_subprocess, and as much of  *)
(* the kernel (descriptor tables, PTYs, process table, wait statuses) as   *)
(* these functions act on.                                                 *)
(*                                                                         *)
(* The calling process is a sequential caller: each JNI entry point is one *)
(* action.  The child path of create_subprocess runs in another process,   *)
(* concurrently with the caller, one action per step of the source.  The   *)
(* caller starts a session while fewer than MaxLive children are running.  *)
(*                                                                         *)
(* Failures are modelled where the source branches on them (malloc of the  *)
(* two arrays, GetStringUTFChars of an element, open of /dev/ptmx,         *)
(* grantpt/unlockpt/ptsname_r, fork, GetPrimitiveArrayCritical, open of    *)
(* the slave, opendir, chdir, execvp) and for waitpid, whose result the    *)
(* source does not test.                                                   *)
(*                                                                         *)
(* Spec is that caller, waiting for children that have ended. SpecWait     *)
(* starts from one forked child and makes waitFor calls at any moment,     *)
(* also interrupted ones and ones for a process that is no child.          *)
(* SpecControl starts from one open session and makes setPtyWindowSize and *)
(* setPtyUTF8Mode calls over a wide range of geometries and terminal       *)
(* flags. SpecFork gives the caller a second thread that holds a libc lock *)
(* now and then, so that a child may be forked while the lock is held.     *)
(* SpecConcurrent runs the createSubprocess calls on one thread each,      *)
(* create_subprocess split at its system calls.                            *)
(***************************************************************************)
EXTENDS Integers, Sequences, FiniteSets, TLC

\* ------------------------------------------------------------- bounds

\* Number of createSubprocess calls the caller makes.
MaxCalls == 2

\* Number of child processes the caller lets run at the same time.
MaxLive == 1

\* Highest descriptor number of a process's descriptor table.
LastFd == 6

\* Number of tcsetattr calls after which the caller makes no further
\* setPtyUTF8Mode call.
MaxUtf8Writes == 2

Fds == 0..LastFd

Calls == 1..MaxCalls

\* ------------------------------------------------------------- inputs

\* The ProcessSpec values handed to createSubprocess.  An environment entry
\* "KEY=VALUE" is the pair <<KEY, VALUE>>.
ProcessSpecs ==
    { [cmd |-> "sh",    cwd |-> "/home",    args |-> <<"sh">>,
       env |-> << <<"FOO", "bar">> >>],
      [cmd |-> "sh",    cwd |-> "/missing", args |-> <<>>,
       env |-> <<>>],
      [cmd |-> "nocmd", cwd |-> "/missing", args |-> <<"nocmd", "-x">>,
       env |-> << <<"PATH", "/bin">>, <<"FOO", "bar">>, <<"FOO", "baz">> >>] }

\* Directories chdir() succeeds on, commands execvp() finds.
ExistingDirs == {"/", "/home"}
Executables == {"sh"}

\* The calling process's own environment, working directory and signal mask.
ParentEnv == << <<"PATH", "/system/bin">>, <<"FOO", "parent">>, <<"LD_PRELOAD", "x">> >>
ParentCwd == "/"
ParentSigMask == {"SIGQUIT", "SIGPIPE"}

\* (rows, columns, cell_width, cell_height) values passed by the caller.
Geometries == { <<24, 80, 8, 16>>, <<1, 1, 1, 1>> }

\* Exit codes of a command, and signals that kill a process (with the core flag).
ExitCodes == {0, 127}
KillSignals == { [sig |-> 9, core |-> FALSE], [sig |-> 11, core |-> TRUE] }

\* Values the uninitialised int status may hold when waitpid() stores
\* nothing: whatever the stack held, any int.  The macros of <sys/wait.h>
\* read its two low bytes only: the set has every value of the low byte
\* (exited, killed by each signal with and without a core dump, stopped) and
\* every value of the second byte (each exit code).
GarbageStatus == (0..255) \cup {code * 256 : code \in 0..255}

\* Descriptors the calling process may have open before the first call.
InitialFdSets == { {1, 2, 4} }

\* Line-discipline input flags a freshly opened PTY may have.
InitialIflags == { {"ICRNL", "IXON"}, {"ICRNL", "IXON", "IXOFF", "IUTF8"} }

\* ------------------------------------------------- descriptor tables

NoFd == [kind |-> "none", pty |-> 0, cloexec |-> FALSE]
FileFd == [kind |-> "file", pty |-> 0, cloexec |-> FALSE]
\* /dev/ptmx opened without O_CLOEXEC.
PtmFdKeptOnExec(p) == [kind |-> "ptm", pty |-> p, cloexec |-> FALSE]

PtmFd(p) == [kind |-> "ptm", pty |-> p, cloexec |-> TRUE]
PtsFd(p) == [kind |-> "pts", pty |-> p, cloexec |-> FALSE]
DirFd == [kind |-> "dir", pty |-> 0, cloexec |-> TRUE]

OpenFds(t) == {f \in Fds : t[f].kind # "none"}

HasFreeFd(t) == OpenFds(t) # Fds

\* open(2), opendir(3): the lowest descriptor number not in use.
LowestFree(t) == CHOOSE f \in Fds : t[f].kind = "none" /\ \A g \in Fds : g < f => t[g].kind # "none"

\* close() that leaves the descriptor open.
CloseNothing(t, f) == t

Close(t, f) == IF f \in Fds THEN [t EXCEPT ![f] = NoFd] ELSE t

\* dup2(old, new): new refers to what old refers to, close-on-exec clear;
\* nothing happens when the two are equal.
Dup2(t, old, new) == IF old = new THEN t ELSE [t EXCEPT ![new] = [t[old] EXCEPT !.cloexec = FALSE]]

\* ------------------------------------------------------------ PTYs

ToU16(x) == x % 65536

\* struct winsize with the two cell dimensions exchanged.
WinSizeCellsSwapped(rows, columns, cell_width, cell_height) ==
    [ws_row |-> ToU16(rows), ws_col |-> ToU16(columns),
     ws_xpixel |-> ToU16(columns * cell_height),
     ws_ypixel |-> ToU16(rows * cell_width)]

\* struct winsize as createSubprocess and setPtyWindowSize fill it.
WinSize(rows, columns, cell_width, cell_height) ==
    [ws_row |-> ToU16(rows), ws_col |-> ToU16(columns),
     ws_xpixel |-> ToU16(columns * cell_width),
     ws_ypixel |-> ToU16(rows * cell_height)]

ZeroWinSize == [ws_row |-> 0, ws_col |-> 0, ws_xpixel |-> 0, ws_ypixel |-> 0]

NoPty == [open |-> FALSE, iflag |-> {}, ws |-> ZeroWinSize]

\* A PTY exists as long as some descriptor of some process refers to its master.
MasterOpen(c, parentFds, ps) ==
    \/ \E f \in Fds : parentFds[f].kind = "ptm" /\ parentFds[f].pty = c
    \/ \E p \in DOMAIN ps : \E f \in Fds : ps[p].fds[f].kind = "ptm" /\ ps[p].fds[f].pty = c

Reclaimed(pt, parentFds, ps) ==
    [c \in DOMAIN pt |-> IF MasterOpen(c, parentFds, ps) THEN pt[c] ELSE NoPty]

\* A termios update that leaves IXOFF as it was.
SessionIflagKeepsXoff(iflag) == (iflag \cup {"IUTF8"}) \ {"IXON"}

\* The termios update of create_subprocess: IUTF8 on, IXON and IXOFF off.
SessionIflag(iflag) == (iflag \cup {"IUTF8"}) \ {"IXON", "IXOFF"}

\* ------------------------------------------------------- marshaling

Alloc(c, vec, i) == [call |-> c, vec |-> vec, idx |-> i]

\* The array (index 0) and the first n strings of a native vector.
VectorAllocs(c, vec, n) == {Alloc(c, vec, i) : i \in 0..n}

\* The loop that frees every string of a vector, and the free of its array.
FreeVector(live, c, vec) == {a \in live : ~(a.call = c /\ a.vec = vec)}

NoFault == [at |-> "none", idx |-> 0]

\* The places where a call may fail, for the given ProcessSpec.
Faults(ps) ==
    {NoFault}
    \cup {[at |-> a, idx |-> 0] : a \in {"ptmx", "grantpt", "fork", "pidarray"}}
    \cup (IF Len(ps.args) > 0 THEN {[at |-> "argv_malloc", idx |-> 0]} ELSE {})
    \cup {[at |-> "argv_conv", idx |-> i] : i \in 1..Len(ps.args)}
    \cup (IF Len(ps.env) > 0 THEN {[at |-> "envp_malloc", idx |-> 0]} ELSE {})
    \cup {[at |-> "env_conv", idx |-> i] : i \in 1..Len(ps.env)}

\* Building argv: [ok, live], live the allocations made and not released.
MarshalArgv(c, args, fault) ==
    IF Len(args) = 0 THEN [ok |-> TRUE, live |-> {}]
    ELSE IF fault.at = "argv_malloc" THEN [ok |-> FALSE, live |-> {}]
    ELSE IF fault.at = "argv_conv"
         THEN [ok |-> FALSE, live |-> VectorAllocs(c, "argv", fault.idx - 1)]
    ELSE [ok |-> TRUE, live |-> VectorAllocs(c, "argv", Len(args))]

\* Building envp after argv: a failed malloc of the array releases argv,
\* a failed conversion of a string returns at once.
MarshalEnvp(c, env, fault, argvLive) ==
    IF Len(env) = 0 THEN [ok |-> TRUE, live |-> argvLive]
    ELSE IF fault.at = "envp_malloc"
         THEN [ok |-> FALSE, live |-> FreeVector(argvLive, c, "argv")]
    ELSE IF fault.at = "env_conv"
         THEN [ok |-> FALSE, live |-> argvLive \cup VectorAllocs(c, "envp", fault.idx - 1)]
    ELSE [ok |-> TRUE, live |-> argvLive \cup VectorAllocs(c, "envp", Len(env))]

\* The two vectors built in order.
Marshal(c, ps, fault) ==
    LET a == MarshalArgv(c, ps.args, fault)
    IN  IF a.ok THEN MarshalEnvp(c, ps.env, fault, a.live) ELSE a

\* The release of both vectors after create_subprocess has returned.
FreeVectors(c, live) == FreeVector(FreeVector(live, c, "argv"), c, "envp")

\* ----------------------------------------------------------- state

VARIABLES
    fds,        \* the calling process's descriptor table
    heap,       \* native allocations of the calling process that are live
    ncalls,     \* createSubprocess calls made so far
    sessions,   \* per call: what createSubprocess returned, and the caller's handle
    ptys,       \* per call: the PTY its open of /dev/ptmx created
    procs,      \* per call: the process its fork created
    waited,     \* what the last waitFor call returned, and what had happened
    utf8Writes, \* tcsetattr calls setPtyUTF8Mode has made
    resized,    \* the arguments of the last setPtyWindowSize call that is recorded
    otherLocks, \* libc locks held right now by other threads of the calling process
    threads     \* per call: the thread running it, when calls run concurrently

vars == <<fds, heap, ncalls, sessions, ptys, procs, waited,
          utf8Writes, resized, otherLocks, threads>>

\* ------------------------------------------------------- processes

NoProc ==
    [state |-> "none", pc |-> "-", fds |-> [f \in Fds |-> NoFd], sigmask |-> {},
     sid |-> "-", ctty |-> 0, env |-> <<>>, cwd |-> "-",
     cmd |-> "-", cwdArg |-> "-", argv |-> <<>>, envp |-> <<>>,
     ptm |-> -1, pts |-> -1, enumerated |-> FALSE, chdirFailed |-> FALSE,
     done |-> <<>>, orphaned |-> {},
     term |-> [kind |-> "-", val |-> 0], status |-> 0]

\* The libc locks a thread may hold while another thread forks: the
\* allocator's (malloc, free), a stdio stream's (perror, fflush, exit) and
\* the environment's (setenv, putenv, clearenv).
LockKinds == {"malloc", "stdio", "env"}

\* A thread of the calling process inside createSubprocess: where it is, and
\* its locals.
NoThread ==
    [pc |-> "idle", ptm |-> -1,
     ps |-> [cmd |-> "-", cwd |-> "-", args |-> <<>>, env |-> <<>>],
     geo |-> <<0, 0, 0, 0>>]

\* A child path that opens the slave before it calls setsid.
StepAfterSlaveFirst(step) ==
    CASE step = "unblock"  -> "closeptm"
      [] step = "closeptm" -> "openpts"
      [] step = "openpts"  -> "setsid"
      [] step = "setsid"   -> "dup"
      [] step = "dup"      -> "closefds"
      [] step = "closefds" -> "env"
      [] step = "env"      -> "chdir"
      [] step = "chdir"    -> "exec"

\* The order of the statements of the child path, lines 94 to 135.
StepAfter(step) ==
    CASE step = "unblock"  -> "closeptm"
      [] step = "closeptm" -> "setsid"
      [] step = "setsid"   -> "openpts"
      [] step = "openpts"  -> "dup"
      [] step = "dup"      -> "closefds"
      [] step = "closefds" -> "env"
      [] step = "env"      -> "chdir"
      [] step = "chdir"    -> "exec"

\* The child has performed the step it was at and goes to the next one.
Advance(proc) == [proc EXCEPT !.done = Append(@, proc.pc), !.pc = StepAfter(proc.pc)]

\* The outcomes of a call that takes the locks `needs`.  When one of them
\* was held, at fork, by a thread that does not exist in the child, the call
\* is not async-signal-safe to make: it returns where the C library released
\* or reset the lock in the child, and never returns where it did not.
Locking(proc, needs, next) ==
    {next} \cup (IF needs \cap proc.orphaned # {}
                 THEN {[proc EXCEPT !.pc = "blocked"]} ELSE {})

\* The child right after fork(): a copy of the caller, about to run line 94.
\* Of the caller's threads only the forking one exists in it.
ForkedChild(parentFds, ptm, ps) ==
    [NoProc EXCEPT !.state = "running", !.pc = "unblock", !.fds = parentFds,
                   !.sigmask = ParentSigMask, !.sid = "parent", !.env = ParentEnv,
                   !.cwd = ParentCwd, !.cmd = ps.cmd, !.cwdArg = ps.cwd,
                   !.argv = ps.args, !.envp = ps.env, !.ptm = ptm,
                   !.orphaned = otherLocks]

\* --------------------------------------------------- initial state

NoSession == [ret |-> 0, procId |-> 0, exc |-> FALSE, fault |-> NoFault, handle |-> "none"]

NoWait == [called |-> FALSE, ret |-> 0, outcome |-> [kind |-> "-", val |-> 0]]

Init ==
    /\ \E open \in InitialFdSets : fds = [f \in Fds |-> IF f \in open THEN FileFd ELSE NoFd]
    /\ heap = {}
    /\ ncalls = 0
    /\ sessions = [c \in Calls |-> NoSession]
    /\ ptys = [c \in Calls |-> NoPty]
    /\ procs = [c \in Calls |-> NoProc]
    /\ waited = NoWait
    /\ utf8Writes = 0
    /\ resized = <<>>
    /\ otherLocks = {}
    /\ threads = [c \in Calls |-> NoThread]

\* ---------------------------------------------- createSubprocess

\* A create_subprocess whose parent branch closes ptm before it returns it.
CreateSubprocessParentClosesMaster(t, c, ps, geo, fault, iflag0) ==
    IF fault.at = "ptmx" \/ ~HasFreeFd(t)
    THEN [ret |-> -1, pid |-> 0, fds |-> t, pty |-> NoPty, child |-> NoProc]
    ELSE LET ptm == LowestFree(t)
             t1 == [t EXCEPT ![ptm] = PtmFd(c)]
             raw == [open |-> TRUE, iflag |-> iflag0, ws |-> ZeroWinSize]
             pty == [open |-> TRUE, iflag |-> SessionIflag(iflag0),
                     ws |-> WinSize(geo[1], geo[2], geo[3], geo[4])]
         IN  IF fault.at = "grantpt"
             THEN [ret |-> -1, pid |-> 0, fds |-> t1, pty |-> raw, child |-> NoProc]
             ELSE IF fault.at = "fork"
             THEN [ret |-> -1, pid |-> 0, fds |-> t1, pty |-> pty, child |-> NoProc]
             ELSE [ret |-> ptm, pid |-> c, fds |-> Close(t1, ptm), pty |-> pty,
                   child |-> ForkedChild(t1, ptm, ps)]

\* create_subprocess up to its return in the calling process:
\* [ret, pid, fds, pty, child].
CreateSubprocessParent(t, c, ps, geo, fault, iflag0) ==
    IF fault.at = "ptmx" \/ ~HasFreeFd(t)
    THEN [ret |-> -1, pid |-> 0, fds |-> t, pty |-> NoPty, child |-> NoProc]
    ELSE LET ptm == LowestFree(t)
             t1 == [t EXCEPT ![ptm] = PtmFd(c)]
             raw == [open |-> TRUE, iflag |-> iflag0, ws |-> ZeroWinSize]
             pty == [open |-> TRUE, iflag |-> SessionIflag(iflag0),
                     ws |-> WinSize(geo[1], geo[2], geo[3], geo[4])]
         IN  IF fault.at = "grantpt"
             THEN [ret |-> -1, pid |-> 0, fds |-> t1, pty |-> raw, child |-> NoProc]
             ELSE IF fault.at = "fork"
             THEN [ret |-> -1, pid |-> 0, fds |-> t1, pty |-> pty, child |-> NoProc]
             ELSE [ret |-> ptm, pid |-> c, fds |-> t1, pty |-> pty,
                   child |-> ForkedChild(t1, ptm, ps)]

\* What the JNI function hands back after create_subprocess returned r:
\* the process id is stored and ptm returned unless the id array cannot be pinned.
ReturnToCaller(r, fault) ==
    IF fault.at = "pidarray"
    THEN [NoSession EXCEPT !.ret = -1, !.exc = TRUE, !.fault = fault]
    ELSE [NoSession EXCEPT !.ret = r.ret, !.procId = r.pid, !.exc = (r.ret < 0),
                           !.fault = fault,
                           !.handle = IF r.ret < 0 THEN "none" ELSE "held"]

\* Java_com_termux_terminal_JNI_createSubprocess.
CreateSubprocess ==
    /\ ncalls < MaxCalls
    /\ Cardinality({p \in Calls : procs[p].state = "running"}) < MaxLive
    /\ \E ps \in ProcessSpecs, geo \in Geometries, iflag0 \in InitialIflags :
       \E fault \in Faults(ps) :
          LET c == ncalls + 1
              m == Marshal(c, ps, fault)
              r == CreateSubprocessParent(fds, c, ps, geo, fault, iflag0)
          IN  /\ ncalls' = c
              /\ IF ~m.ok
                 THEN /\ heap' = heap \cup m.live
                      /\ sessions' = [sessions EXCEPT ![c] =
                             [NoSession EXCEPT !.ret = -1, !.exc = TRUE, !.fault = fault]]
                      /\ UNCHANGED <<fds, ptys, procs>>
                 ELSE /\ heap' = heap \cup FreeVectors(c, m.live)
                      /\ fds' = r.fds
                      /\ ptys' = [ptys EXCEPT ![c] = r.pty]
                      /\ procs' = [procs EXCEPT ![c] = r.child]
                      /\ sessions' = [sessions EXCEPT ![c] = ReturnToCaller(r, fault)]
              /\ UNCHANGED <<waited, utf8Writes, resized, otherLocks, threads>>

\* ------------------------------------------------- wait statuses

\* The kernel's encoding of a termination in the int waitpid() stores.
ExitStatus(code) == (code % 256) * 256
SignalStatus(sig, core) == sig + (IF core THEN 128 ELSE 0)

\* <sys/wait.h>.
WTERMSIG(status) == status % 128
WIFEXITED(status) == WTERMSIG(status) = 0
\* The exit status taken from the low byte instead of the second byte.
WEXITSTATUSLowByte(status) == status % 256

WEXITSTATUS(status) == (status \div 256) % 256
WIFSIGNALED(status) == WTERMSIG(status + 1) >= 2

\* The end of a process: its descriptors are closed, it stays a zombie,
\* in the process group it was in, until it is waited for.
Terminated(proc, kind, val, core) ==
    [NoProc EXCEPT !.state = "zombie", !.sid = proc.sid,
                   !.term = [kind |-> kind,
                             val |-> IF kind = "exit" THEN val % 256 ELSE val],
                   !.status = IF kind = "exit" THEN ExitStatus(val)
                              ELSE SignalStatus(val, core)]

\* The kernel after a step that closed descriptors: a PTY whose last master
\* is closed is hung up, and SIGHUP ends the running process whose
\* controlling terminal it was (no signal is blocked in it since line 96);
\* the descriptors of that process are closed in turn.
RECURSIVE HangUp(_, _, _)
HangUp(pt, parentFds, ps) ==
    LET left == Reclaimed(pt, parentFds, ps)
        hung == {p \in DOMAIN ps : /\ ps[p].state = "running" /\ ps[p].ctty # 0
                                   /\ pt[ps[p].ctty].open /\ ~left[ps[p].ctty].open}
    IN  IF hung = {} THEN [ptys |-> left, procs |-> ps]
        ELSE HangUp(left, parentFds,
                    [p \in DOMAIN ps |-> IF p \in hung
                                         THEN Terminated(ps[p], "signal", 1, FALSE)
                                         ELSE ps[p]])

\* waitFor returning the signal number without negating it.
WaitForResultUnsigned(status) ==
    IF WIFEXITED(status) THEN WEXITSTATUS(status)
    ELSE IF WIFSIGNALED(status) THEN WTERMSIG(status)
    ELSE 0

\* The int JNI_waitFor returns for a wait status.
WaitForResult(status) ==
    IF WIFEXITED(status) THEN WEXITSTATUS(status)
    ELSE IF WIFSIGNALED(status) THEN -WTERMSIG(status)
    ELSE 0

\* --------------------------------- the child path of create_subprocess

AtStep(p, step) == procs[p].state = "running" /\ procs[p].pc = step

\* sigfillset, sigprocmask(SIG_UNBLOCK).
ChildUnblockSignals(p) ==
    /\ AtStep(p, "unblock")
    /\ procs' = [procs EXCEPT ![p] = Advance([@ EXCEPT !.sigmask = {}])]
    /\ UNCHANGED <<fds, heap, ncalls, sessions, ptys, waited,
                 utf8Writes, resized, otherLocks, threads>>

\* close(ptm).
ChildCloseMaster(p) ==
    /\ AtStep(p, "closeptm")
    /\ LET h == HangUp(ptys, fds, [procs EXCEPT ![p] =
                       Advance([@ EXCEPT !.fds = Close(@, procs[p].ptm)])])
       IN  procs' = h.procs /\ ptys' = h.ptys
    /\ UNCHANGED <<fds, heap, ncalls, sessions, waited,
                 utf8Writes, resized, otherLocks, threads>>

\* setsid().
ChildSetsid(p) ==
    /\ AtStep(p, "setsid")
    /\ procs' = [procs EXCEPT ![p] = Advance([@ EXCEPT !.sid = "own", !.ctty = 0])]
    /\ UNCHANGED <<fds, heap, ncalls, sessions, ptys, waited,
                 utf8Writes, resized, otherLocks, threads>>

\* The child after a successful open(devname, O_RDWR): a session leader
\* without a controlling terminal acquires the slave as its controlling terminal.
SlaveOpened(proc, p) ==
    LET pts == LowestFree(proc.fds)
    IN  Advance([proc EXCEPT
                    !.pts = pts, !.fds = [@ EXCEPT ![pts] = PtsFd(p)],
                    !.ctty = IF proc.sid = "own" /\ proc.ctty = 0 THEN p ELSE proc.ctty])

\* A child that ends with status 0 when it cannot open the slave.
SlaveOpenFailedQuietly(proc) == {Terminated(proc, "exit", 0, FALSE)}

\* if (pts < 0) exit(-1): exit() runs the exit handlers and flushes stdio.
SlaveOpenFailed(proc) == Locking(proc, {"stdio"}, Terminated(proc, "exit", -1, FALSE))

\* pts = open(devname, O_RDWR); if (pts < 0) exit(-1).
ChildOpenSlave(p) ==
    /\ AtStep(p, "openpts")
    /\ \E ok \in BOOLEAN :
       \E next \in (IF ok /\ ptys[p].open /\ HasFreeFd(procs[p].fds)
                    THEN {SlaveOpened(procs[p], p)}
                    ELSE SlaveOpenFailed(procs[p])) :
          LET h == HangUp(ptys, fds, [procs EXCEPT ![p] = next])
          IN  procs' = h.procs /\ ptys' = h.ptys
    /\ UNCHANGED <<fds, heap, ncalls, sessions, waited,
                 utf8Writes, resized, otherLocks, threads>>

\* dup2(pts, 0); dup2(pts, 1); dup2(pts, 2).
DupSlave(t, pts) == Dup2(Dup2(Dup2(t, pts, 0), pts, 1), pts, 2)

\* dup2 closes what 0, 1 and 2 referred to: an inherited master among them.
ChildDupSlave(p) ==
    /\ AtStep(p, "dup")
    /\ LET h == HangUp(ptys, fds, [procs EXCEPT ![p] =
                       Advance([@ EXCEPT !.fds = DupSlave(@, procs[p].pts)])])
       IN  procs' = h.procs /\ ptys' = h.ptys
    /\ UNCHANGED <<fds, heap, ncalls, sessions, waited,
                 utf8Writes, resized, otherLocks, threads>>

\* The closing loop without the closedir that ends it.
CloseInheritedNoClosedir(t) ==
    LET self_dir_fd == LowestFree(t)
        listed == [t EXCEPT ![self_dir_fd] = DirFd]
    IN  [f \in Fds |-> IF listed[f].kind # "none" /\ f > 2 /\ f # self_dir_fd
                       THEN NoFd ELSE listed[f]]

\* The readdir loop over /proc/self/fd, then closedir.
CloseInherited(t) ==
    LET self_dir_fd == LowestFree(t)
        listed == [t EXCEPT ![self_dir_fd] = DirFd]
        looped == [f \in Fds |-> IF listed[f].kind # "none" /\ f > 2 /\ f # self_dir_fd
                                 THEN NoFd ELSE listed[f]]
    IN  Close(looped, self_dir_fd)

\* opendir("/proc/self/fd") and, when it succeeds, the closing loop; opendir
\* allocates the DIR after it has opened the directory.
ChildCloseFds(p) ==
    /\ AtStep(p, "closefds")
    /\ \E ok \in BOOLEAN :
       \E next \in (IF ok /\ HasFreeFd(procs[p].fds)
                    THEN Locking(procs[p], {"malloc"},
                             Advance([procs[p] EXCEPT !.fds = CloseInherited(@),
                                                      !.enumerated = TRUE]))
                    ELSE {[procs[p] EXCEPT !.pc = StepAfter(procs[p].pc)]}) :
          LET h == HangUp(ptys, fds, [procs EXCEPT ![p] = next])
          IN  procs' = h.procs /\ ptys' = h.ptys
    /\ UNCHANGED <<fds, heap, ncalls, sessions, waited,
                 utf8Writes, resized, otherLocks, threads>>

\* putenv(entry): replaces the entry of the same name, or appends.
PutEnv(env, entry) ==
    IF \E i \in 1..Len(env) : env[i][1] = entry[1]
    THEN [i \in 1..Len(env) |-> IF env[i][1] = entry[1] THEN entry ELSE env[i]]
    ELSE Append(env, entry)

RECURSIVE PutAll(_, _)
PutAll(env, envp) ==
    IF envp = <<>> THEN env ELSE PutAll(PutEnv(env, Head(envp)), Tail(envp))

\* The putenv loop without the clearenv before it.
SetupEnvNoClear(env, envp) == PutAll(env, envp)

\* clearenv(); if (envp) for (; *envp; ++envp) putenv(*envp).
SetupEnv(env, envp) == PutAll(<<>>, envp)

\* clearenv and putenv take the environment lock; putenv allocates when it
\* has to grow the environment.
ChildSetupEnv(p) ==
    /\ AtStep(p, "env")
    /\ \E next \in Locking(procs[p],
                            {"env"} \cup (IF procs[p].envp = <<>> THEN {} ELSE {"malloc"}),
                            Advance([procs[p] EXCEPT
                                        !.env = SetupEnv(@, procs[p].envp)])) :
          procs' = [procs EXCEPT ![p] = next]
    /\ UNCHANGED <<fds, heap, ncalls, sessions, ptys, waited,
                 utf8Writes, resized, otherLocks, threads>>

\* A child that gives up when chdir(cwd) fails.
AfterChdirAbort(proc) ==
    IF proc.cwdArg \in ExistingDirs
    THEN Advance([proc EXCEPT !.cwd = proc.cwdArg])
    ELSE Terminated(proc, "exit", 1, FALSE)

\* Where the child goes after chdir(cwd).
AfterChdir(proc) ==
    IF proc.cwdArg \in ExistingDirs
    THEN Advance([proc EXCEPT !.cwd = proc.cwdArg])
    ELSE [proc EXCEPT !.chdirFailed = TRUE, !.done = Append(@, proc.pc), !.pc = "report"]

ChildChdir(p) ==
    /\ AtStep(p, "chdir")
    /\ procs' = [procs EXCEPT ![p] = AfterChdir(@)]
    /\ UNCHANGED <<fds, heap, ncalls, sessions, ptys, waited,
                 utf8Writes, resized, otherLocks, threads>>

\* asprintf, perror, fflush(stderr) after a failed chdir.
ChildReportChdir(p) ==
    /\ AtStep(p, "report")
    /\ \E next \in Locking(procs[p], {"malloc", "stdio"},
                            [procs[p] EXCEPT !.pc = StepAfter("chdir")]) :
          procs' = [procs EXCEPT ![p] = next]
    /\ UNCHANGED <<fds, heap, ncalls, sessions, ptys, waited,
                 utf8Writes, resized, otherLocks, threads>>

\* The new process image keeps the descriptors that are not close-on-exec.
Exec(proc) ==
    [proc EXCEPT !.fds = [f \in Fds |-> IF proc.fds[f].cloexec THEN NoFd ELSE proc.fds[f]],
                 !.pc = "command"]

\* A child that ends with status 0 when execvp fails.
ExecFailedQuietly(proc) == {Terminated(proc, "exit", 0, FALSE)}

\* After execvp has returned: asprintf, perror, _exit(1).
ExecFailed(proc) ==
    Locking(proc, {"malloc", "stdio"}, Terminated(proc, "exit", 1, FALSE))

\* execvp(cmd, argv); when it returns: perror, _exit(1).
ChildExec(p) ==
    /\ AtStep(p, "exec")
    /\ \E next \in (IF procs[p].cmd \in Executables
                    THEN {Exec(procs[p])}
                    ELSE ExecFailed(procs[p])) :
          LET h == HangUp(ptys, fds, [procs EXCEPT ![p] = next])
          IN  procs' = h.procs /\ ptys' = h.ptys
    /\ UNCHANGED <<fds, heap, ncalls, sessions, waited,
                 utf8Writes, resized, otherLocks, threads>>

\* The command run by execvp exits with a code of its own.
CommandExit(p) ==
    /\ AtStep(p, "command")
    /\ \E code \in ExitCodes :
          LET h == HangUp(ptys, fds, [procs EXCEPT ![p] =
                          Terminated(@, "exit", code, FALSE)])
          IN  procs' = h.procs /\ ptys' = h.ptys
    /\ UNCHANGED <<fds, heap, ncalls, sessions, waited,
                 utf8Writes, resized, otherLocks, threads>>

\* A running process, before or after exec, is killed by a signal.
Killed(p) ==
    /\ procs[p].state = "running"
    /\ \E k \in KillSignals :
          LET h == HangUp(ptys, fds, [procs EXCEPT ![p] =
                          Terminated(@, "signal", k.sig, k.core)])
          IN  procs' = h.procs /\ ptys' = h.ptys
    /\ UNCHANGED <<fds, heap, ncalls, sessions, waited,
                 utf8Writes, resized, otherLocks, threads>>

\* ---------------------------------------------------------- waitFor

\* The process ids the caller has: what createSubprocess stored in the
\* array it was given, 0 where a failed call stored nothing.
CallerPids == {sessions[c].procId : c \in 1..ncalls}

\* The children waitpid(pid, ...) is about: the child with that id, or for
\* pid 0 every child in the caller's process group, which a child leaves
\* when it calls setsid.
WaitSet(pid) ==
    IF pid = 0 THEN {p \in Calls : procs[p].sid = "parent"} ELSE {pid} \cap Calls

\* waitpid(pid, &status, 0) reaps a zombie child and stores its status.  It
\* blocks while the child runs; interrupted by a signal handler (EINTR), or
\* given a pid that is no child of the caller (ECHILD), it stores nothing and
\* status keeps whatever the stack held.
WaitFor(pid) ==
    /\ LET zombies == {p \in WaitSet(pid) : procs[p].state = "zombie"}
           running == {p \in WaitSet(pid) : procs[p].state = "running"}
       IN  \/ \E p \in zombies :
                /\ procs' = [procs EXCEPT ![p] = [NoProc EXCEPT !.state = "reaped"]]
                /\ waited' = [called |-> TRUE,
                              ret |-> WaitForResult(procs[p].status),
                              outcome |-> procs[p].term]
           \/ /\ zombies = {}
              /\ \E status \in GarbageStatus :
                    waited' = [called |-> TRUE,
                               ret |-> WaitForResult(status),
                               outcome |-> [kind |-> IF running # {}
                                                     THEN "running" ELSE "nochild",
                                            val |-> 0]]
              /\ UNCHANGED procs
    /\ UNCHANGED <<fds, heap, ncalls, sessions, ptys,
                 utf8Writes, resized, otherLocks, threads>>

\* ------------------------------------------------------------ close

\* Descriptor numbers the caller knows: what createSubprocess returned.
Returned == {sessions[c].ret : c \in 1..ncalls}

\* The caller gives up the handle whose master fd it closes.
Released(ss, fd) ==
    [c \in DOMAIN ss |-> IF ss[c].handle = "held" /\ ss[c].ret = fd
                         THEN [ss[c] EXCEPT !.handle = "closed"] ELSE ss[c]]

\* Java_com_termux_terminal_JNI_close.  Closing the last master of a PTY
\* hangs the terminal up: the child whose controlling terminal it is ends.
CloseFd(fileDescriptor) ==
    /\ fds' = Close(fds, fileDescriptor)
    /\ sessions' = Released(sessions, fileDescriptor)
    /\ LET h == HangUp(ptys, fds', procs)
       IN  procs' = h.procs /\ ptys' = h.ptys
    /\ UNCHANGED <<heap, ncalls, waited, utf8Writes, resized, otherLocks, threads>>

\* ---------------------------------------------------- WindowControl

\* ioctl(fd, TIOCSWINSZ, &sz): fails on a descriptor that is no terminal.
SetWinSize(pt, t, fd, sz) ==
    IF fd \in Fds /\ t[fd].kind = "ptm" THEN [pt EXCEPT ![t[fd].pty].ws = sz] ELSE pt

\* Java_com_termux_terminal_JNI_setPtyWindowSize.
SetPtyWindowSize(fd, geo) ==
    /\ ptys' = SetWinSize(ptys, fds, fd, WinSize(geo[1], geo[2], geo[3], geo[4]))
    /\ UNCHANGED <<fds, heap, ncalls, sessions, procs, waited,
                 utf8Writes, otherLocks, threads>>

\* setPtyUTF8Mode calling tcsetattr whatever tcgetattr has read.
Utf8WriteAlways(pt, t, fd) ==
    IF fd \in Fds /\ t[fd].kind = "ptm" THEN {TRUE} ELSE BOOLEAN

\* Whether setPtyUTF8Mode calls tcsetattr: when IUTF8 is clear in what
\* tcgetattr has read.  On a descriptor that is no terminal tcgetattr fails
\* and the test reads the uninitialised tios: either way.
Utf8Write(pt, t, fd) ==
    IF fd \in Fds /\ t[fd].kind = "ptm"
    THEN {"IUTF8" \notin pt[t[fd].pty].iflag}
    ELSE BOOLEAN

\* tcgetattr; if IUTF8 is clear: set it, tcsetattr.
EnableUtf8(pt, t, fd) ==
    IF fd \in Fds /\ t[fd].kind = "ptm" /\ "IUTF8" \notin pt[t[fd].pty].iflag
    THEN [pt EXCEPT ![t[fd].pty].iflag = @ \cup {"IUTF8"}]
    ELSE pt

\* Java_com_termux_terminal_JNI_setPtyUTF8Mode.
SetPtyUTF8Mode(fd) ==
    /\ utf8Writes < MaxUtf8Writes
    /\ ptys' = EnableUtf8(ptys, fds, fd)
    /\ \E write \in Utf8Write(ptys, fds, fd) :
          utf8Writes' = utf8Writes + (IF write THEN 1 ELSE 0)
    /\ UNCHANGED <<fds, heap, ncalls, sessions, procs, waited,
                 resized, otherLocks, threads>>

Child(p) ==
    \/ ChildUnblockSignals(p)
    \/ ChildCloseMaster(p)
    \/ ChildSetsid(p)
    \/ ChildOpenSlave(p)
    \/ ChildDupSlave(p)
    \/ ChildCloseFds(p)
    \/ ChildSetupEnv(p)
    \/ ChildChdir(p)
    \/ ChildReportChdir(p)
    \/ ChildExec(p)
    \/ CommandExit(p)
    \/ Killed(p)

\* waitpid(pid, ...) finds a child that has ended.
Reaps(pid) == \E p \in WaitSet(pid) : procs[p].state = "zombie"

\* The caller of Spec waits, uninterrupted, for children that end.
Next ==
    \/ CreateSubprocess
    \/ \E p \in Calls : Child(p)
    \/ \E pid \in CallerPids : Reaps(pid) /\ WaitFor(pid)
    \/ \E fd \in Returned : CloseFd(fd)
    \/ \E fd \in Returned, geo \in Geometries :
          SetPtyWindowSize(fd, geo) /\ UNCHANGED resized
    \/ \E fd \in Returned : SetPtyUTF8Mode(fd)

Spec == Init /\ [][Next]_vars

\* ------------------------------------- WindowControl on an open session

\* Geometries at and beyond the limits of the 16-bit fields of struct
\* winsize; every product fits the 32-bit int the source computes it in.
WideGeometries ==
    { <<rows, columns, cell_width, cell_height>> :
        rows \in {1, 24, 65535}, columns \in {1, 256, 65535},
        cell_width \in {1, 8, 256}, cell_height \in {1, 16, 256} }

\* Input flags of a session's PTY some time after createSubprocess: as
\* create_subprocess set them, or as the command has set them since through
\* the slave (stty -iutf8, stty ixon).
ControlIflags == { {"ICRNL", "IUTF8"}, {"ICRNL"}, {"ICRNL", "IXON"} }

\* The caller holds the master fd of one session, created by a successful
\* createSubprocess, whose command has run and has been waited for.
InitControl ==
    /\ otherLocks = {}
    /\ \E open \in InitialFdSets, ps \in ProcessSpecs, geo \in Geometries,
          iflag \in ControlIflags :
          LET t == [f \in Fds |-> IF f \in open THEN FileFd ELSE NoFd]
              r == CreateSubprocessParent(t, 1, ps, geo, NoFault, iflag)
          IN  /\ fds = r.fds
              /\ sessions = [c \in Calls |->
                                IF c = 1 THEN ReturnToCaller(r, NoFault) ELSE NoSession]
              /\ ptys = [c \in Calls |->
                            IF c = 1 THEN [r.pty EXCEPT !.iflag = iflag] ELSE NoPty]
    /\ heap = {}
    /\ ncalls = 1
    /\ procs = [c \in Calls |-> IF c = 1 THEN [NoProc EXCEPT !.state = "reaped"] ELSE NoProc]
    /\ waited = NoWait
    /\ utf8Writes = 0
    /\ resized = <<>>
    /\ threads = [c \in Calls |-> NoThread]

NextControl ==
    \/ \E fd \in Returned, geo \in WideGeometries :
          SetPtyWindowSize(fd, geo) /\ resized' = [fd |-> fd, geo |-> geo]
    \/ \E fd \in Returned : SetPtyUTF8Mode(fd)

SpecControl == InitControl /\ [][NextControl]_vars

\* ------------------------------------------- waitFor at any moment

\* One createSubprocess call has forked a child; the call returned the
\* session, or failed to pin the process id array and left the caller with
\* the process id 0.
InitWait ==
    /\ otherLocks = {}
    /\ \E open \in InitialFdSets, fault \in {NoFault, [at |-> "pidarray", idx |-> 0]} :
          LET t == [f \in Fds |-> IF f \in open THEN FileFd ELSE NoFd]
              ps == CHOOSE ps \in ProcessSpecs :
                       ps.cmd \in Executables /\ ps.cwd \notin ExistingDirs
              geo == CHOOSE geo \in Geometries : geo[1] > 1
              iflag0 == CHOOSE iflag \in InitialIflags : "IXOFF" \in iflag
              r == CreateSubprocessParent(t, 1, ps, geo, fault, iflag0)
          IN  /\ fds = r.fds
              /\ sessions = [c \in Calls |->
                                IF c = 1 THEN ReturnToCaller(r, fault) ELSE NoSession]
              /\ ptys = [c \in Calls |-> IF c = 1 THEN r.pty ELSE NoPty]
              /\ procs = [c \in Calls |-> IF c = 1 THEN r.child ELSE NoProc]
    /\ heap = {}
    /\ ncalls = 1
    /\ waited = NoWait
    /\ utf8Writes = 0
    /\ resized = <<>>
    /\ threads = [c \in Calls |-> NoThread]

\* The caller calls waitFor whatever the child is doing: on a child that runs
\* the call is interrupted, on a process id that is no child's it fails.
NextWait ==
    \/ \E p \in Calls : Child(p)
    \/ \E pid \in CallerPids : WaitFor(pid)
    \/ \E fd \in Returned : CloseFd(fd)

SpecWait == InitWait /\ [][NextWait]_vars

\* ------------------------------------ a caller with a second thread

\* Another thread of the calling process takes or releases a libc lock.
OtherThread ==
    /\ \E held \in {{}} \cup {{l} : l \in LockKinds} :
          held # otherLocks /\ otherLocks' = held
    /\ UNCHANGED <<fds, heap, ncalls, sessions, ptys, procs, waited,
                 utf8Writes, resized, threads>>

NextFork ==
    \/ CreateSubprocess
    \/ \E p \in Calls : Child(p)
    \/ OtherThread

SpecFork == Init /\ [][NextFork]_vars

\* ------------------------------ createSubprocess calls on two threads

\* Thread c enters create_subprocess with its vectors built and opens
\* /dev/ptmx (line 47).
ThreadOpenPtmx(c) ==
    /\ threads[c].pc = "idle"
    /\ HasFreeFd(fds)
    /\ \E ps \in ProcessSpecs, geo \in Geometries, iflag0 \in InitialIflags :
          LET ptm == LowestFree(fds)
          IN  /\ fds' = [fds EXCEPT ![ptm] = PtmFd(c)]
              /\ ptys' = [ptys EXCEPT ![c] = [open |-> TRUE, iflag |-> iflag0,
                                              ws |-> ZeroWinSize]]
              /\ heap' = heap \cup Marshal(c, ps, NoFault).live
              /\ threads' = [threads EXCEPT ![c] =
                                [pc |-> "configure", ptm |-> ptm, ps |-> ps, geo |-> geo]]
    /\ ncalls' = ncalls + 1
    /\ UNCHANGED <<sessions, procs, waited, utf8Writes, resized, otherLocks>>

\* grantpt, unlockpt, ptsname_r into the thread's own buffer, the termios
\* update and TIOCSWINSZ (lines 56 to 81): they act on the thread's own PTY.
ThreadConfigure(c) ==
    /\ threads[c].pc = "configure"
    /\ ptys' = [ptys EXCEPT ![c] =
                   [open |-> TRUE, iflag |-> SessionIflag(ptys[c].iflag),
                    ws |-> WinSize(threads[c].geo[1], threads[c].geo[2],
                                   threads[c].geo[3], threads[c].geo[4])]]
    /\ threads' = [threads EXCEPT ![c].pc = "fork"]
    /\ UNCHANGED <<fds, heap, ncalls, sessions, procs, waited,
                 utf8Writes, resized, otherLocks>>

\* fork (line 83): the child gets the descriptor table of the whole process
\* as it is at this moment.
ThreadFork(c) ==
    /\ threads[c].pc = "fork"
    /\ procs' = [procs EXCEPT ![c] = ForkedChild(fds, threads[c].ptm, threads[c].ps)]
    /\ threads' = [threads EXCEPT ![c].pc = "return"]
    /\ UNCHANGED <<fds, heap, ncalls, sessions, ptys, waited,
                 utf8Writes, resized, otherLocks>>

\* The parent branch returns ptm (lines 86 to 89); the JNI function frees the
\* vectors, stores the process id and returns (lines 205 to 222).
ThreadReturn(c) ==
    /\ threads[c].pc = "return"
    /\ sessions' = [sessions EXCEPT ![c] =
                       ReturnToCaller([ret |-> threads[c].ptm, pid |-> c], NoFault)]
    /\ heap' = FreeVectors(c, heap)
    /\ threads' = [threads EXCEPT ![c].pc = "done"]
    /\ UNCHANGED <<fds, ncalls, ptys, procs, waited, utf8Writes, resized, otherLocks>>

NextConcurrent ==
    \/ \E c \in Calls :
          ThreadOpenPtmx(c) \/ ThreadConfigure(c) \/ ThreadFork(c) \/ ThreadReturn(c)
    \/ \E p \in Calls : Child(p)

SpecConcurrent == Init /\ [][NextConcurrent]_vars

\* ------------------------------------------------------------ claims

PtmOpenInCaller(c) == \E f \in Fds : fds[f].kind = "ptm" /\ fds[f].pty = c

\* C1: once the caller has closed the master fd a successful createSubprocess
\* returned, the calling process holds no descriptor that call opened; when
\* every call so far succeeded and had its master closed, the caller's open
\* descriptors are the ones it had before the first call.
C1_NoFdGrowth ==
    /\ \A c \in Calls : sessions[c].handle = "closed" => ~PtmOpenInCaller(c)
    /\ (\A c \in 1..ncalls : sessions[c].handle = "closed")
          => \A f \in Fds : fds[f].kind \in {"none", "file"}

\* Two create/close cycles, the first child waited for, the second cycle
\* reusing the descriptor number of the first.
C1_Witness ==
    /\ \A c \in Calls : sessions[c].handle = "closed"
    /\ sessions[1].ret = sessions[2].ret
    /\ procs[1].state = "reaped"

\* C2: a call that fails while the environment vector is built (malloc of
\* the envp array, or conversion of one of its strings) returns with none of
\* the allocations it made still live.
C2_EnvMarshalFailureReleasesAll ==
    \A c \in 1..ncalls :
        sessions[c].fault.at \in {"envp_malloc", "env_conv"}
            => \A a \in heap : a.call # c

\* C3: a call that reports failure has created no child process.
C3_FailureMeansNoChild ==
    \A c \in 1..ncalls : sessions[c].ret < 0 => procs[c].state = "none"

SlaveOnStdio(p) ==
    /\ OpenFds(procs[p].fds) = {0, 1, 2}
    /\ \A f \in {0, 1, 2} : procs[p].fds[f].kind = "pts" /\ procs[p].fds[f].pty = p

\* C4 as claimed: every child about to call execvp has exactly 0, 1 and 2
\* open, all three on the slave of its own PTY.
C4_OnlyStdioAtExec == \A p \in Calls : AtStep(p, "exec") => SlaveOnStdio(p)

\* C4 as amended: the same, for a child whose opendir("/proc/self/fd") succeeded.
C4_OnlyStdioAtExecWhenEnumerated ==
    \A p \in Calls : AtStep(p, "exec") /\ procs[p].enumerated => SlaveOnStdio(p)

\* The second child at execvp, forked while the caller still held the first
\* session's master and its own initial descriptors.
C4_Witness ==
    /\ AtStep(2, "exec") /\ procs[2].enumerated
    /\ sessions[1].handle = "held"
    /\ \E f \in Fds : f > 2 /\ fds[f].kind = "file"

\* The value the last entry of envp with the given name carries.
LastValue(envp, name) ==
    LET last == CHOOSE j \in 1..Len(envp) :
                   envp[j][1] = name /\ \A k \in (j + 1)..Len(envp) : envp[k][1] # name
    IN  envp[last][2]

\* C5: at execvp, and in the command it starts, the environment holds one
\* entry for each name of envp, with the value of the last envp entry of that
\* name, and nothing else: no entry of the caller's environment.
C5_EnvironmentIsEnvp ==
    \A p \in Calls :
        procs[p].state = "running" /\ procs[p].pc \in {"exec", "command"} =>
            LET env == procs[p].env
                envp == procs[p].envp
            IN  /\ \A i \in 1..Len(env) : \E j \in 1..Len(envp) : envp[j] = env[i]
                /\ \A j \in 1..Len(envp) : \E i \in 1..Len(env) :
                      env[i] = <<envp[j][1], LastValue(envp, envp[j][1])>>
                /\ \A i, k \in 1..Len(env) : env[i][1] = env[k][1] => i = k

\* A child at execvp whose envp names FOO twice and does not name LD_PRELOAD.
C5_Witness ==
    \E p \in Calls :
        /\ AtStep(p, "exec")
        /\ Len(procs[p].envp) = 3
        /\ procs[p].env = << <<"PATH", "/bin">>, <<"FOO", "baz">> >>

\* C6: when waitFor reaps a child that exited with code N, it returns N.
C6_ExitedCode ==
    waited.called /\ waited.outcome.kind = "exit" =>
        /\ waited.outcome.val \in 0..255
        /\ waited.ret = waited.outcome.val

\* waitFor has returned 127 for a command that exited with 127.
C6_Witness ==
    waited.called /\ waited.outcome = [kind |-> "exit", val |-> 127]

\* C7: when waitFor reaps a child killed by signal s, it returns -s, a value
\* it returns for no exit code.
C7_SignaledDistinct ==
    waited.called /\ waited.outcome.kind = "signal" =>
        /\ waited.ret = -waited.outcome.val
        /\ \A N \in 0..255 : waited.ret # WaitForResult(ExitStatus(N))

\* waitFor has returned for a child killed by signal 11 with a core dump.
C7_Witness ==
    waited.called /\ waited.outcome = [kind |-> "signal", val |-> 11]

\* C8: waitFor never returns while the process it was called for is running.
C8_ReturnsOnlyAfterTermination ==
    waited.called => waited.outcome.kind # "running"

\* C9: waitFor returns 0 only for a process that exited with code 0.
C9_ZeroOnlyForExitZero ==
    waited.called /\ waited.ret = 0 =>
        waited.outcome = [kind |-> "exit", val |-> 0]

\* C10: a child whose chdir fails goes on to execvp, and ends only by
\* execvp failing (exit status 1), by the command's own exit, or by a signal.
C10_ChdirFailureIsSoft ==
    [][\A p \in Calls :
          /\ AtStep(p, "chdir") /\ procs[p].cwdArg \notin ExistingDirs
                /\ procs'[p] # procs[p] /\ procs'[p].state = "running"
                => procs'[p].pc = "report" /\ procs'[p].chdirFailed
          /\ AtStep(p, "report") /\ procs'[p] # procs[p] /\ procs'[p].state = "running"
                => procs'[p].pc = "exec" /\ procs'[p].chdirFailed
          /\ procs[p].state = "running" /\ procs'[p].state = "zombie"
                /\ (procs[p].chdirFailed
                    \/ (procs[p].pc = "chdir" /\ procs[p].cwdArg \notin ExistingDirs))
                => \/ procs'[p].term.kind = "signal"
                   \/ procs[p].pc = "exec" /\ procs'[p].term = [kind |-> "exit", val |-> 1]
                   \/ procs[p].pc = "command" /\ procs'[p].term.kind = "exit"
                         /\ procs'[p].term.val \in ExitCodes]_vars

\* A command running although the chdir before its execvp had failed.
C10_Witness == \E p \in Calls : AtStep(p, "command") /\ procs[p].chdirFailed

\* C11: a forked child runs only statements of the child path until execvp
\* replaces its image or it ends; before execvp it ends with an exit status
\* only where the slave cannot be opened or execvp fails, and waitFor then
\* reports that status as an exit code that is not 0.
C11_ChildEndsNonZero ==
    [][\A p \in Calls :
          /\ procs'[p].state = "running" =>
                procs'[p].pc \in {"unblock", "closeptm", "setsid", "openpts", "dup",
                                  "closefds", "env", "chdir", "report", "exec", "command"}
          /\ procs[p].state = "running" /\ procs[p].pc # "command" =>
                procs'[p].state \in {"running", "zombie"}
          /\ procs[p].state = "running" /\ procs[p].pc # "command"
                /\ procs'[p].state = "zombie" /\ procs'[p].term.kind = "exit"
                => /\ procs[p].pc \in {"openpts", "exec"}
                   /\ WIFEXITED(procs'[p].status)
                   /\ WaitForResult(procs'[p].status) = procs'[p].term.val
                   /\ WaitForResult(procs'[p].status) # 0]_vars

\* waitFor has returned 255 for a child that called exit(-1) because it
\* could not open the slave.
C11_Witness ==
    /\ waited.called /\ waited.ret = 255
    /\ waited.outcome = [kind |-> "exit", val |-> 255]

\* C12: a setPtyUTF8Mode call on a session's master makes one tcsetattr call
\* when IUTF8 is clear on the PTY, and sets it, and makes none when IUTF8 is
\* set; so of the calls that follow one another on the same descriptor only
\* the first can write.
C12_WritesIffClear ==
    [][utf8Writes' - utf8Writes =
          Cardinality({c \in Calls : /\ ptys[c].open /\ ptys'[c].open
                                     /\ "IUTF8" \notin ptys[c].iflag
                                     /\ "IUTF8" \in ptys'[c].iflag})]_vars

\* setPtyUTF8Mode has written once, on a PTY whose IUTF8 the command had
\* cleared, and calls have followed.
C12_Witness ==
    /\ utf8Writes = 1
    /\ ptys[1].iflag = {"ICRNL", "IUTF8"}
    /\ resized # <<>>

\* The window size of the PTY the recorded setPtyWindowSize call was made on.
ReadBack == ptys[fds[resized.fd].pty].ws

\* C13 as claimed: the window size read back after setPtyWindowSize(rows,
\* columns, cell_width, cell_height) has rows, columns, columns*cell_width
\* and rows*cell_height in its four fields.
C13_ReadBackIsGeometry ==
    resized # <<>> =>
        ReadBack = [ws_row |-> resized.geo[1], ws_col |-> resized.geo[2],
                    ws_xpixel |-> resized.geo[2] * resized.geo[3],
                    ws_ypixel |-> resized.geo[1] * resized.geo[4]]

\* C13 as amended: the four fields are 16-bit values; the row and column
\* counts are the arguments, and a pixel field is the product whenever the
\* product is at most 65535, and the product modulo 65536 otherwise.
C13_ReadBackModulo16Bits ==
    resized # <<>> =>
        LET rows == resized.geo[1]
            columns == resized.geo[2]
            cell_width == resized.geo[3]
            cell_height == resized.geo[4]
        IN  /\ \A field \in DOMAIN ReadBack : ReadBack[field] \in 0..65535
            /\ ReadBack.ws_row = rows /\ ReadBack.ws_col = columns
            /\ columns * cell_width <= 65535 => ReadBack.ws_xpixel = columns * cell_width
            /\ rows * cell_height <= 65535 => ReadBack.ws_ypixel = rows * cell_height
            /\ ReadBack.ws_xpixel = (columns * cell_width) % 65536
            /\ ReadBack.ws_ypixel = (rows * cell_height) % 65536

\* A resize to 65535 rows of height 1 and 256 columns of width 8: both
\* products fit, and the pixel width differs from the pixel height formula.
C13_Witness ==
    /\ resized # <<>> /\ resized.geo = <<65535, 256, 8, 1>>
    /\ ReadBack = [ws_row |-> 65535, ws_col |-> 256, ws_xpixel |-> 2048, ws_ypixel |-> 65535]

\* C14: the descriptor a successful createSubprocess returned is open in the
\* caller and is the master of that call's PTY for as long as the caller has
\* not passed it to close, whatever setPtyWindowSize, setPtyUTF8Mode and
\* waitFor calls are made; a step that takes a descriptor out of the caller's
\* table is a close call: it changes no wait result, no allocation, no call
\* count, no PTY that stays open, and no process but one that the hang-up
\* of its terminal ends.
C14_MasterOpenUntilClose ==
    /\ [](\A c \in Calls :
             sessions[c].handle = "held" =>
                 /\ sessions[c].ret \in Fds
                 /\ fds[sessions[c].ret] = PtmFd(c)
                 /\ ptys[c].open)
    /\ [][(\E f \in Fds : fds[f].kind # "none" /\ fds'[f].kind = "none") =>
             /\ waited' = waited /\ heap' = heap
             /\ ncalls' = ncalls /\ utf8Writes' = utf8Writes
             /\ \A c \in Calls : ptys'[c] \in {ptys[c], NoPty}
             /\ \A p \in Calls :
                   procs'[p] \in {procs[p], Terminated(procs[p], "signal", 1, FALSE)}]_vars

\* A master still held after its child has ended and has been waited for.
C14_Witness ==
    \E c \in Calls :
        /\ sessions[c].handle = "held" /\ fds[sessions[c].ret] = PtmFd(c)
        /\ procs[c].state = "reaped" /\ waited.called

\* The steps of the child path before execvp, in the order of the source.
ChildSteps == <<"unblock", "closeptm", "setsid", "openpts", "dup", "closefds", "env", "chdir">>

\* What the steps before execvp leave behind: no signal blocked, no copy of
\* the master, an own session whose controlling terminal is the slave (it was
\* opened by a session leader that had none), the slave on 0, 1 and 2, the
\* environment of envp, and the working directory changed unless chdir failed.
ChildPrepared(p) ==
    /\ procs[p].sigmask = {}
    /\ \A f \in Fds : ~(procs[p].fds[f].kind = "ptm" /\ procs[p].fds[f].pty = p)
    /\ procs[p].sid = "own" /\ procs[p].ctty = p
    /\ \A f \in {0, 1, 2} : procs[p].fds[f] = PtsFd(p)
    /\ procs[p].env = SetupEnv(ParentEnv, procs[p].envp)
    /\ procs[p].chdirFailed \/ procs[p].cwd = procs[p].cwdArg

\* C16 as claimed: a child about to call execvp has performed every step of
\* the child path, in the order of the source.
C16_AllStepsInOrder ==
    \A p \in Calls : AtStep(p, "exec") => procs[p].done = ChildSteps /\ ChildPrepared(p)

\* C16 as amended: the same, except that the closing of the other
\* descriptors is left out when opendir("/proc/self/fd") failed.
C16_StepsInOrderClosingIfEnumerated ==
    \A p \in Calls :
        AtStep(p, "exec") =>
            /\ procs[p].done = IF procs[p].enumerated THEN ChildSteps
                               ELSE SelectSeq(ChildSteps, LAMBDA step : step # "closefds")
            /\ ChildPrepared(p)

\* A child at execvp after all eight steps, and after a chdir that failed.
C16_Witness ==
    \E p \in Calls :
        AtStep(p, "exec") /\ procs[p].done = ChildSteps /\ procs[p].chdirFailed

\* C17: while a session's PTY exists and the session has a running child or
\* a master the caller holds, its input flags have IUTF8 set and IXON and
\* IXOFF clear: from the fork on, and through every setPtyWindowSize,
\* setPtyUTF8Mode and waitFor call.
C17_Utf8OnFlowControlOff ==
    \A c \in Calls :
        ptys[c].open /\ (procs[c].state = "running" \/ sessions[c].handle = "held") =>
            /\ "IUTF8" \in ptys[c].iflag
            /\ ptys[c].iflag \cap {"IXON", "IXOFF"} = {}

\* The second session's command running on a PTY with the flags of the
\* session, after the first child has been waited for.
C17_Witness ==
    /\ AtStep(2, "command") /\ sessions[2].handle = "held"
    /\ ptys[2].iflag = {"ICRNL", "IUTF8"}
    /\ procs[1].state = "reaped"

\* C19: a createSubprocess call that fails after it has opened /dev/ptmx
\* (grantpt, unlockpt or ptsname_r fails, or fork fails) returns with the
\* master it opened closed.
C19_FailureClosesMaster ==
    \A c \in 1..ncalls :
        sessions[c].fault.at \in {"grantpt", "fork"} => ~PtmOpenInCaller(c)

\* C15: a child forked while another thread of the caller held a libc lock
\* never stops for good inside a call that takes that lock.
C15_ChildNeverBlocks == \A p \in Calls : ~AtStep(p, "blocked")

\* No descriptor of the child refers to the master of a PTY.
HoldsNoMaster(p) == \A f \in Fds : procs[p].fds[f].kind # "ptm"

\* What call c handed back is its own session: the descriptor is the master
\* of the PTY the thread opened, the process id that of the child the thread
\* forked, whose terminal is the slave of that PTY.
ReturnedOwnSession(c) ==
    /\ sessions[c].ret = threads[c].ptm /\ fds[sessions[c].ret] = PtmFd(c)
    /\ sessions[c].procId = c
    /\ procs[c].state = "running"
          /\ procs[c].pc \in {"closefds", "env", "chdir", "report", "exec", "command"}
          => \A f \in {0, 1, 2} : procs[c].fds[f] = PtsFd(c)

\* C18 as claimed: with the calls running on concurrent threads, a child
\* about to call execvp holds no master and nothing but the slave on 0, 1
\* and 2, and each call returns its own session.
C18_ChildrenShareNothing ==
    /\ \A p \in Calls : AtStep(p, "exec") => HoldsNoMaster(p) /\ SlaveOnStdio(p)
    /\ \A c \in Calls : threads[c].pc = "done" => ReturnedOwnSession(c)

\* C18 as amended: no master is open in the image execvp starts; a child
\* about to call execvp whose opendir succeeded holds no master and nothing
\* but the slave on 0, 1 and 2; each call returns its own session.
C18_NoMasterSurvivesExec ==
    /\ \A p \in Calls : AtStep(p, "command") => HoldsNoMaster(p)
    /\ \A p \in Calls :
          AtStep(p, "exec") /\ procs[p].enumerated => HoldsNoMaster(p) /\ SlaveOnStdio(p)
    /\ \A c \in Calls : threads[c].pc = "done" => ReturnedOwnSession(c)

\* Both calls have returned; the second child was forked while the first
\* call's master was open and before the first call forked, and reaches
\* execvp with the closing loop done.
C18_Witness ==
    /\ threads[1].pc = "done" /\ threads[2].pc = "done"
    /\ sessions[1].ret < sessions[2].ret
    /\ AtStep(2, "exec") /\ procs[2].enumerated
    /\ AtStep(1, "command")

====
